---- MODULE Spec2Model ----
(***************************************************************************)
(* Model of netlify/functions/articles.mts: the articles HTTP handler over *)
(* a key-value JSON store.                                                 *)
(*                                                                         *)
(* Strings that the handler inspects character by character (slugs) are    *)
(* sequences of one-character strings; the empty string is <<>>.  Strings  *)
(* the handler only copies (title, excerpt, status, publishedAt) are TLA+  *)
(* strings.  A field that is missing from a JSON object is Undefined.      *)
(* Timestamps (new Date().toISOString()) are the natural numbers of the    *)
(* clock: ISO-8601 strings of one format order as their instants do, and   *)
(* every one of them is a non-empty, hence truthy, string.                 *)
(***************************************************************************)
EXTENDS Integers, Sequences, FiniteSets, TLC

VARIABLES
    store,    \* the "articles" blob store: key -> stored JSON record
    clock,    \* the wall clock read by new Date()
    req,      \* the last request handled (sequential runs)
    resp,     \* the response to it
    before,   \* the store as it was when that request arrived
    nreq,     \* number of requests handled so far (sequential runs)
    pc,       \* concurrent runs: where each invocation stands
    loc,      \* concurrent runs: each invocation's request and locals
    cresp,    \* concurrent runs: each invocation's response
    overlap,  \* concurrent runs: history, some POST began while another was in flight
    san,      \* sanitation runs: input and results
    lst       \* listing runs: result of the listing

vars == <<store, clock, req, resp, before, nreq, pc, loc, cresp, overlap, san, lst>>

----------------------------------------------------------------------------
(* Bounds of the model *)

MaxSanLen == 4
MaxTime == 2
MaxReqs == 2
NProcs == 3
MaxListed == 3

----------------------------------------------------------------------------
(* JSON values *)

Undefined == "<undefined>"
Null == [type |-> "null"]

\* a JSON string value held in body.slug
Str(s) == [type |-> "string", chars |-> s]
\* a missing body.slug, and a body.slug that is a (non-zero) number
NoValue == [type |-> "undefined", chars |-> <<>>]
NumValue == [type |-> "number", chars |-> <<>>]

\* !v for the slug value v
FalsySlug(v) == v.type = "undefined" \/ (v.type = "string" /\ v.chars = <<>>)
\* !t for the title t
FalsyTitle(t) == t = Undefined \/ t = ""

----------------------------------------------------------------------------
(* Slug sanitation *)

UpperToLower ==
    [A |-> "a", B |-> "b", C |-> "c", D |-> "d", E |-> "e", F |-> "f", G |-> "g",
     H |-> "h", I |-> "i", J |-> "j", K |-> "k", L |-> "l", M |-> "m", N |-> "n",
     O |-> "o", P |-> "p", Q |-> "q", R |-> "r", S |-> "s", T |-> "t", U |-> "u",
     V |-> "v", W |-> "w", X |-> "x", Y |-> "y", Z |-> "z"]

SlugChars ==
    {"a","b","c","d","e","f","g","h","i","j","k","l","m","n","o","p","q","r","s","t",
     "u","v","w","x","y","z","0","1","2","3","4","5","6","7","8","9","-"}

\* .toLowerCase()
ToLowerCase(s) ==
    [i \in 1..Len(s) |-> IF s[i] \in DOMAIN UpperToLower THEN UpperToLower[s[i]] ELSE s[i]]

\* .replace(/[^a-z0-9-]/g, "-"): each character outside the class, one by one
ReplaceInvalid(s) ==
    [i \in 1..Len(s) |-> IF s[i] \in SlugChars THEN s[i] ELSE "-"]

\* .replace(/-+/g, "-"): a hyphen that follows a hyphen is dropped
RECURSIVE CollapseHyphens(_)
CollapseHyphens(s) ==
    IF Len(s) < 2 THEN s
    ELSE IF s[1] = "-" /\ s[2] = "-" THEN CollapseHyphens(Tail(s))
    ELSE <<s[1]>> \o CollapseHyphens(Tail(s))

\* .replace(/^-|-$/g, ""): one hyphen at the start, one hyphen at the end
StripEnds(s) ==
    LET t == IF s # <<>> /\ Head(s) = "-" THEN Tail(s) ELSE s
    IN  IF t # <<>> /\ t[Len(t)] = "-" THEN SubSeq(t, 1, Len(t) - 1) ELSE t

\* variant: the ends are stripped before the hyphens are collapsed
SanitizeStripFirst(s) == CollapseHyphens(StripEnds(ReplaceInvalid(ToLowerCase(s))))

SanitizeSlug(s) == StripEnds(CollapseHyphens(ReplaceInvalid(ToLowerCase(s))))

----------------------------------------------------------------------------
(* The blob store *)

StoreGet(st, key) == IF key \in DOMAIN st THEN st[key] ELSE Null

StoreSetJSON(st, key, value) ==
    [k \in DOMAIN st \cup {key} |-> IF k = key THEN value ELSE st[k]]

StoreDelete(st, key) == [k \in DOMAIN st \ {key} |-> st[k]]

EmptyStore == [k \in {} |-> Null]

----------------------------------------------------------------------------
(* Pieces of the handler *)

\* new Response(JSON.stringify(body), {status, headers})
Response(status, body) == [status |-> status, body |-> body]

NotFound == Response(404, [error |-> "Article not found"])
SlugAndTitleRequired == Response(400, [error |-> "Slug and title are required"])
SlugRequired == Response(400, [error |-> "Slug is required"])
MethodNotAllowed == Response(405, [error |-> "Method not allowed"])
InternalServerError == Response(500, [error |-> "Internal server error"])
Success == Response(200, [success |-> TRUE])

\* pathParts.slice(2).join("/")
RECURSIVE JoinSlash(_)
JoinSlash(parts) ==
    IF parts = <<>> THEN <<>>
    ELSE IF Len(parts) = 1 THEN parts[1]
    ELSE parts[1] \o <<"/">> \o JoinSlash(Tail(parts))

\* const slug = pathParts.length > 2 ? pathParts.slice(2).join("/") : null
PathSlug(pathParts) ==
    IF Len(pathParts) > 2
    THEN Str(JoinSlash(SubSeq(pathParts, 3, Len(pathParts))))
    ELSE [type |-> "null", chars |-> <<>>]

\* if (slug): null and the empty string are falsy
HasSlug(slug) == slug.type = "string" /\ slug.chars # <<>>

\* !body.slug || !body.title
InvalidBody(body) == FalsySlug(body.slug) \/ FalsyTitle(body.title)

\* existingArticle?.createdAt || now
\* variant: createdAt is stamped anew on every write
CreatedAtAlwaysNow(existing, now) == now

CreatedAt(existing, now) == IF existing # Null THEN existing.createdAt ELSE now

\* { ...body, slug: sanitizedSlug, createdAt: ..., updatedAt: now }
\* variant: a field the body omits is taken from the stored record (merge)
ArticleToSaveMerged(body, sanitizedSlug, existing, now) ==
    [slug |-> sanitizedSlug,
     title |-> body.title,
     status |-> body.status,
     publishedAt |-> body.publishedAt,
     excerpt |-> IF body.excerpt = Undefined /\ existing # Null
                 THEN existing.excerpt ELSE body.excerpt,
     createdAt |-> CreatedAt(existing, now),
     updatedAt |-> now]

\* variant: the two timestamps are assigned the other way round
ArticleToSaveSwapped(body, sanitizedSlug, existing, now) ==
    [slug |-> sanitizedSlug,
     title |-> body.title,
     status |-> body.status,
     publishedAt |-> body.publishedAt,
     excerpt |-> body.excerpt,
     createdAt |-> now,
     updatedAt |-> CreatedAt(existing, now)]

ArticleToSave(body, sanitizedSlug, existing, now) ==
    [slug |-> sanitizedSlug,
     title |-> body.title,
     status |-> body.status,
     publishedAt |-> body.publishedAt,
     excerpt |-> body.excerpt,
     createdAt |-> CreatedAt(existing, now),
     updatedAt |-> now]

\* status: existingArticle ? 200 : 201
PostStatus(existing) == IF existing # Null THEN 200 ELSE 201

----------------------------------------------------------------------------
(* Listing *)

\* new Date(p).getTime(): a number for a date string, NaN for anything else
DateTable == [d20240101 |-> 19723, d20240601 |-> 19875]
DateKey(p) ==
    IF p = "2024-01-01" THEN "d20240101"
    ELSE IF p = "2024-06-01" THEN "d20240601"
    ELSE "NaN"
IsNaN(p) == DateKey(p) \notin DOMAIN DateTable
GetTime(p) == DateTable[DateKey(p)]

\* the comparator (a, b) => getTime(b) - getTime(a); sort() reads a NaN result as +0
CompareNewestFirst(a, b) ==
    IF IsNaN(a.publishedAt) \/ IsNaN(b.publishedAt) THEN 0
    ELSE GetTime(b.publishedAt) - GetTime(a.publishedAt)

\* Array.prototype.sort is stable: an element moves in front of the elements that
\* the comparator puts strictly after it, and of no other.
RECURSIVE InsertSorted(_, _)
InsertSorted(sorted, x) ==
    IF sorted # <<>> /\ CompareNewestFirst(sorted[Len(sorted)], x) > 0
    THEN InsertSorted(SubSeq(sorted, 1, Len(sorted) - 1), x) \o <<sorted[Len(sorted)]>>
    ELSE sorted \o <<x>>

RECURSIVE SortNewestFirst(_)
SortNewestFirst(articles) ==
    IF articles = <<>> THEN <<>>
    ELSE InsertSorted(SortNewestFirst(SubSeq(articles, 1, Len(articles) - 1)),
                      articles[Len(articles)])

\* for (const blob of blobs) { ... if (article && article.status === "published") push }
RECURSIVE PublishedOfAll(_, _)
PublishedOfAll(st, blobs) ==
    IF blobs = <<>> THEN <<>>
    ELSE LET article == StoreGet(st, Head(blobs))
         IN  (IF article # Null /\ article.status = "published" THEN <<article>> ELSE <<>>)
             \o PublishedOfAll(st, Tail(blobs))

PublishedOf(st, blobs) == PublishedOfAll(st, blobs)

ListingOf(st, blobs) == SortNewestFirst(PublishedOf(st, blobs))

\* store.list(): the keys, in an order the store chooses
Orders(S) == {o \in [1..Cardinality(S) -> S] : \A i, j \in DOMAIN o : i # j => o[i] # o[j]}

----------------------------------------------------------------------------
(* Requests of the sequential runs *)

\* body.slug strings and path segments of the requests: plain, upper case, only
\* characters outside the class, and a character outside the class in the middle
RawSlugs == {<<>>, <<"a">>, <<"A">>, <<"!">>, <<"a", "!", "A">>}

Titles == {Undefined, "T"}
Statuses == {"draft", "published"}
PublishedAts == {"2024-06-01"}
Excerpts == {Undefined, "e"}

Bodies ==
    [slug : {NoValue, NumValue} \cup {Str(s) : s \in RawSlugs},
     title : Titles, status : Statuses, publishedAt : PublishedAts, excerpt : Excerpts]

\* a request body that is not JSON: req.json() throws
Malformed == [malformed |-> TRUE]

\* url.pathname.split("/").filter(Boolean): no empty segment is left
BasePath == << <<"a","p","i">>, <<"a","r","t","i","c","l","e","s">> >>
Paths == {BasePath} \cup {BasePath \o <<s>> : s \in RawSlugs \ {<<>>}}

\* a request, with what the run adds to it: the time it is handled at and the
\* call that throws while it is handled ("none": no call throws)
Request(method, pathParts, body, throws, at) ==
    [method |-> method, pathParts |-> pathParts, body |-> body,
     throws |-> throws, at |-> at]

\* url.pathname.split("/").filter(Boolean) for /api/articles/<slug>, slug without "/"
SplitPath(slug) == IF slug = <<>> THEN BasePath ELSE BasePath \o <<slug>>

NoRequest == [method |-> "none"]
NoResponse == [status |-> 0]

SeqIdle ==
    /\ pc = [p \in {} |-> "idle"]
    /\ loc = [p \in {} |-> Null]
    /\ cresp = [p \in {} |-> NoResponse]
    /\ overlap = FALSE
    /\ san = Null
    /\ lst = Null

Init ==
    /\ store = EmptyStore
    /\ clock = 1
    /\ req = NoRequest
    /\ resp = NoResponse
    /\ before = EmptyStore
    /\ nreq = 0
    /\ SeqIdle

\* one request is handled from arrival to response; r is the request
Handled(r, response, newStore) ==
    /\ nreq' = nreq + 1
    /\ req' = r
    /\ resp' = response
    /\ before' = store
    /\ store' = newStore
    /\ UNCHANGED <<clock, pc, loc, cresp, overlap, san, lst>>

\* time passes; the clock never goes backwards
Tick ==
    /\ clock < MaxTime
    /\ clock' = clock + 1
    /\ UNCHANGED <<store, req, resp, before, nreq, pc, loc, cresp, overlap, san, lst>>

\* what case "GET" does with a slug
\* variant: the path slug is sanitized before the lookup
GetResultSanitized(st, slug, throws) ==
    IF throws # "none" THEN InternalServerError
    ELSE LET article == StoreGet(st, SanitizeSlug(slug.chars))
         IN  IF article = Null THEN NotFound ELSE Response(200, article)

GetResult(st, slug, throws) ==
    IF throws # "none" THEN InternalServerError
    ELSE LET article == StoreGet(st, slug.chars)
         IN  IF article = Null THEN NotFound ELSE Response(200, article)

\* what case "GET" does without a slug; blobs is the answer of store.list()
ListResult(st, blobs, throws) ==
    IF throws # "none" THEN InternalServerError ELSE Response(200, ListingOf(st, blobs))

\* case "GET": if (slug) ... else ...
GetResponse(st, pathParts, blobs, throws) ==
    IF HasSlug(PathSlug(pathParts))
    THEN GetResult(st, PathSlug(pathParts), throws)
    ELSE ListResult(st, blobs, throws)

GetArticle ==
    /\ nreq < MaxReqs
    /\ \E path \in Paths, throws \in {"none", "get"} :
        /\ HasSlug(PathSlug(path))
        /\ Handled(Request("GET", path, Null, throws, clock),
                   GetResponse(store, path, <<>>, throws), store)

ListArticles ==
    /\ nreq < MaxReqs
    /\ \E path \in Paths, blobs \in Orders(DOMAIN store), throws \in {"none", "list", "get"} :
        /\ ~HasSlug(PathSlug(path))
        /\ Handled(Request("GET", path, Null, throws, clock),
                   GetResponse(store, path, blobs, throws), store)

\* case "POST" before it reads the store: the response if it returns (or throws)
\* there, NoResponse if it goes on
PostRejected(body) ==
    IF body = Malformed                      \* await req.json() throws
    THEN InternalServerError
    ELSE IF InvalidBody(body)
    THEN SlugAndTitleRequired
    ELSE IF body.slug.type # "string"        \* body.slug.toLowerCase is not a function
    THEN InternalServerError
    ELSE NoResponse

\* what case "POST" does with the body: the response and the store it leaves.
\* throws names the call that throws, if one does.
\* variant: a setJSON that throws has written the record
PostResultWriteFirst(st, now, body, throws) ==
    IF PostRejected(body) # NoResponse
    THEN [resp |-> PostRejected(body), store |-> st]
    ELSE LET sanitizedSlug == SanitizeSlug(body.slug.chars)
             existingArticle == StoreGet(st, sanitizedSlug)
             articleToSave == ArticleToSave(body, sanitizedSlug, existingArticle, now)
         IN  IF throws = "get"
             THEN [resp |-> InternalServerError, store |-> st]
             ELSE IF throws = "set"
             THEN [resp |-> InternalServerError,
                   store |-> StoreSetJSON(st, sanitizedSlug, articleToSave)]
             ELSE [resp |-> Response(PostStatus(existingArticle), articleToSave),
                   store |-> StoreSetJSON(st, sanitizedSlug, articleToSave)]

PostResult(st, now, body, throws) ==
    IF PostRejected(body) # NoResponse
    THEN [resp |-> PostRejected(body), store |-> st]
    ELSE LET sanitizedSlug == SanitizeSlug(body.slug.chars)
             existingArticle == StoreGet(st, sanitizedSlug)
             articleToSave == ArticleToSave(body, sanitizedSlug, existingArticle, now)
         IN  IF throws \in {"get", "set"}
             THEN [resp |-> InternalServerError, store |-> st]
             ELSE [resp |-> Response(PostStatus(existingArticle), articleToSave),
                   store |-> StoreSetJSON(st, sanitizedSlug, articleToSave)]

PostArticle ==
    /\ nreq < MaxReqs
    /\ \E body \in Bodies \cup {Malformed}, throws \in {"none", "get", "set"} :
        LET result == PostResult(store, clock, body, throws)
        IN  Handled(Request("POST", BasePath, body, throws, clock), result.resp, result.store)

\* what case "DELETE" does
\* variant: a DELETE of a key that is not stored answers 404
DeleteResultStrict(st, slug, throws) ==
    IF ~HasSlug(slug) THEN [resp |-> SlugRequired, store |-> st]
    ELSE IF throws # "none" THEN [resp |-> InternalServerError, store |-> st]
    ELSE IF slug.chars \notin DOMAIN st THEN [resp |-> NotFound, store |-> st]
    ELSE [resp |-> Success, store |-> StoreDelete(st, slug.chars)]

DeleteResult(st, slug, throws) ==
    IF ~HasSlug(slug) THEN [resp |-> SlugRequired, store |-> st]
    ELSE IF throws # "none" THEN [resp |-> InternalServerError, store |-> st]
    ELSE [resp |-> Success, store |-> StoreDelete(st, slug.chars)]

DeleteArticle ==
    /\ nreq < MaxReqs
    /\ \E path \in Paths, throws \in {"none", "delete"} :
        LET result == DeleteResult(store, PathSlug(path), throws)
        IN  Handled(Request("DELETE", path, Null, throws, clock), result.resp, result.store)

\* default:
OtherMethod ==
    /\ nreq < MaxReqs
    /\ \E method \in {"PUT", "PATCH"}, path \in Paths :
        Handled(Request(method, path, Null, "none", clock), MethodNotAllowed, store)

Next ==
    \/ Tick
    \/ GetArticle
    \/ ListArticles
    \/ PostArticle
    \/ DeleteArticle
    \/ OtherMethod

Spec == Init /\ [][Next]_vars

----------------------------------------------------------------------------
(* Sanitation runs: the sanitation applied to a string, and to its result *)

SanAlphabet == {"a", "B", "-", "!"}

\* all strings of at most n characters of the alphabet A
RECURSIVE StringsUpTo(_, _)
StringsUpTo(A, n) ==
    IF n = 0 THEN {<<>>}
    ELSE LET shorter == StringsUpTo(A, n - 1)
         IN  shorter \cup {<<c>> \o s : c \in A, s \in {x \in shorter : Len(x) = n - 1}}

HelloWorld == <<"H","e","l","l","o"," ","W","o","r","l","d","!">>
HyphensAB == <<"-","-","a","-","-","b","-","-">>

SanInputs == StringsUpTo(SanAlphabet, MaxSanLen) \cup {HelloWorld, HyphensAB}

SanInit ==
    /\ store = EmptyStore
    /\ clock = 1
    /\ req = NoRequest
    /\ resp = NoResponse
    /\ before = EmptyStore
    /\ nreq = 0
    /\ pc = [p \in {} |-> "idle"]
    /\ loc = [p \in {} |-> Null]
    /\ cresp = [p \in {} |-> NoResponse]
    /\ overlap = FALSE
    /\ lst = Null
    /\ \E s \in SanInputs : san = [input |-> s, applied |-> 0, once |-> <<>>, twice |-> <<>>]

\* const sanitizedSlug = body.slug.toLowerCase().replace(...)...
SanitizeInput ==
    /\ san.applied = 0
    /\ san' = [san EXCEPT !.applied = 1, !.once = SanitizeSlug(san.input)]
    /\ UNCHANGED <<store, clock, req, resp, before, nreq, pc, loc, cresp, overlap, lst>>

\* the same on the slug a POST returned
SanitizeResult ==
    /\ san.applied = 1
    /\ san' = [san EXCEPT !.applied = 2, !.twice = SanitizeSlug(san.once)]
    /\ UNCHANGED <<store, clock, req, resp, before, nreq, pc, loc, cresp, overlap, lst>>

SanNext == SanitizeInput \/ SanitizeResult

SpecSan == SanInit /\ [][SanNext]_vars

----------------------------------------------------------------------------
(* Listing runs: articles are posted at one instant, then listed *)

ListSlugs == << <<"a">>, <<"b">>, <<"a", "-", "b">>, <<"c">>, <<"a", "b">> >>
ListDates == {"2024-01-01", "2024-06-01", "soon"}

ListBodies ==
    [slug : {Str(ListSlugs[i]) : i \in 1..MaxListed},
     title : {"T"}, status : Statuses, publishedAt : ListDates, excerpt : {Undefined}]

ListInit ==
    /\ Init
    /\ MaxListed <= Len(ListSlugs)

ListPost ==
    /\ \E body \in ListBodies : store' = PostResult(store, clock, body, "none").store
    /\ lst' = Null
    /\ UNCHANGED <<clock, req, resp, before, nreq, pc, loc, cresp, overlap, san>>

ListGet ==
    /\ \E blobs \in Orders(DOMAIN store) :
         lst' = [blobs |-> blobs, resp |-> GetResponse(store, BasePath, blobs, "none")]
    /\ UNCHANGED <<store, clock, req, resp, before, nreq, pc, loc, cresp, overlap, san>>

ListNext == ListPost \/ ListGet

SpecList == ListInit /\ [][ListNext]_vars

----------------------------------------------------------------------------
(* Concurrent runs: NProcs invocations of the handler, one request each, whose   *)
(* store calls interleave.  An invocation runs from one await to the next in one *)
(* step; store.get, store.setJSON and store.delete each take effect at once.     *)
(* No call throws in these runs: a call that throws ends its invocation without  *)
(* a write, as the sequential runs show.                                         *)

Procs == 1..NProcs

\* two bodies the handler accepts, for one sanitized slug, and one it rejects
ConcBodies ==
    {b \in [slug : {Str(<<"A">>)}, title : Titles, status : {"published"},
            publishedAt : PublishedAts, excerpt : Excerpts] :
        b.title = Undefined => b.excerpt = Undefined}
ConcPaths == {BasePath, BasePath \o << <<"a">> >>}

NoLocals ==
    [method |-> "none", body |-> Null, sanitizedSlug |-> <<>>, now |-> 0,
     existingArticle |-> Null]

ConcInit ==
    /\ store = EmptyStore
    /\ clock = 1
    /\ req = NoRequest
    /\ resp = NoResponse
    /\ before = EmptyStore
    /\ nreq = 0
    /\ pc = [p \in Procs |-> "start"]
    /\ loc = [p \in Procs |-> NoLocals]
    /\ cresp = [p \in Procs |-> NoResponse]
    /\ overlap = FALSE
    /\ san = Null
    /\ lst = Null

\* p is a POST between taking its timestamp and the end of its setJSON
InFlight(p) == pc[p] \in {"get", "set"}

ConcTick ==
    /\ clock < MaxTime
    /\ clock' = clock + 1
    /\ UNCHANGED <<store, req, resp, before, nreq, pc, loc, cresp, overlap, san, lst>>

\* case "POST" up to the call of store.get: body, validation, sanitizedSlug, now
PostBegin(p) ==
    /\ pc[p] = "start"
    /\ \E body \in ConcBodies :
         IF PostRejected(body) # NoResponse
         THEN /\ pc' = [pc EXCEPT ![p] = "done"]
              /\ loc' = [loc EXCEPT ![p] = [NoLocals EXCEPT !.method = "POST", !.body = body]]
              /\ cresp' = [cresp EXCEPT ![p] = PostRejected(body)]
              /\ UNCHANGED overlap
         ELSE /\ pc' = [pc EXCEPT ![p] = "get"]
              /\ loc' = [loc EXCEPT ![p] =
                           [method |-> "POST", body |-> body,
                            sanitizedSlug |-> SanitizeSlug(body.slug.chars),
                            now |-> clock, existingArticle |-> Null]]
              /\ overlap' = (overlap \/ \E q \in Procs \ {p} :
                               /\ InFlight(q)
                               /\ loc[q].sanitizedSlug = SanitizeSlug(body.slug.chars))
              /\ UNCHANGED cresp
    /\ UNCHANGED <<store, clock, req, resp, before, nreq, san, lst>>

\* const existingArticle = await store.get(sanitizedSlug, { type: "json" })
PostGet(p) ==
    /\ pc[p] = "get"
    /\ pc' = [pc EXCEPT ![p] = "set"]
    /\ loc' = [loc EXCEPT ![p].existingArticle = StoreGet(store, loc[p].sanitizedSlug)]
    /\ UNCHANGED <<store, clock, req, resp, before, nreq, cresp, overlap, san, lst>>

\* await store.setJSON(sanitizedSlug, articleToSave); return new Response(...)
PostSet(p) ==
    /\ pc[p] = "set"
    /\ LET articleToSave == ArticleToSave(loc[p].body, loc[p].sanitizedSlug,
                                          loc[p].existingArticle, loc[p].now)
       IN  /\ store' = StoreSetJSON(store, loc[p].sanitizedSlug, articleToSave)
           /\ cresp' = [cresp EXCEPT ![p] =
                          Response(PostStatus(loc[p].existingArticle), articleToSave)]
    /\ pc' = [pc EXCEPT ![p] = "done"]
    /\ UNCHANGED <<clock, req, resp, before, nreq, loc, overlap, san, lst>>

\* case "DELETE"
ConcDelete(p) ==
    /\ pc[p] = "start"
    /\ \E path \in ConcPaths :
         LET result == DeleteResult(store, PathSlug(path), "none")
         IN  /\ store' = result.store
             /\ cresp' = [cresp EXCEPT ![p] = result.resp]
             /\ loc' = [loc EXCEPT ![p] =
                          [NoLocals EXCEPT !.method = "DELETE",
                                           !.sanitizedSlug = PathSlug(path).chars]]
    /\ pc' = [pc EXCEPT ![p] = "done"]
    /\ UNCHANGED <<clock, req, resp, before, nreq, overlap, san, lst>>

ConcNext ==
    \/ ConcTick
    \/ \E p \in Procs : PostBegin(p)
    \/ \E p \in Procs : PostGet(p)
    \/ \E p \in Procs : PostSet(p)
    \/ \E p \in Procs : ConcDelete(p)

SpecConc == ConcInit /\ [][ConcNext]_vars

----------------------------------------------------------------------------
(* Claims about sequential runs (Spec) *)

\* the last request was a POST that was answered 200 or 201
PostSaved == req.method = "POST" /\ resp.status \in {200, 201}
\* the last request was a POST with a body the handler accepts, and no call threw
PostValid ==
    /\ req.method = "POST"
    /\ req.body # Malformed
    /\ ~InvalidBody(req.body)
    /\ req.body.slug.type = "string"
    /\ req.throws = "none"
\* its sanitized slug
PostKey == SanitizeSlug(req.body.slug.chars)

\* C1: a valid POST to a slug with no stored record answers 201 and stores
\* createdAt = now; a valid POST to a slug with a stored record answers 200, keeps
\* the record's createdAt and sets updatedAt to the time of this POST; so the
\* createdAt of a key that stays stored never changes.
C1_CreatedAtSetOnce ==
    /\ PostValid =>
         /\ PostKey \in DOMAIN store
         /\ store[PostKey].updatedAt = req.at
         /\ IF PostKey \in DOMAIN before
            THEN /\ resp.status = 200
                 /\ store[PostKey].createdAt = before[PostKey].createdAt
            ELSE /\ resp.status = 201
                 /\ store[PostKey].createdAt = req.at
    /\ \A k \in DOMAIN before \cap DOMAIN store :
         store[k].createdAt = before[k].createdAt

\* an update at a later time than the creation
C1_Witness ==
    /\ PostValid
    /\ resp.status = 200
    /\ store[PostKey].createdAt < store[PostKey].updatedAt

\* C2: after a POST answered 200 or 201, a GET for the sanitized slug answers 200
\* with exactly the record the POST returned: the body's fields unchanged, slug
\* replaced by the sanitized slug, createdAt <= updatedAt, and nothing taken from
\* the record stored before but createdAt.
C2_PostThenGet ==
    PostSaved =>
        /\ resp.body = [slug |-> PostKey,
                        title |-> req.body.title,
                        status |-> req.body.status,
                        publishedAt |-> req.body.publishedAt,
                        excerpt |-> req.body.excerpt,
                        createdAt |-> resp.body.createdAt,
                        updatedAt |-> resp.body.updatedAt]
        /\ resp.body.createdAt <= resp.body.updatedAt
        /\ \A blobs \in Orders(DOMAIN store) :
             GetResponse(store, SplitPath(PostKey), blobs, "none") = Response(200, resp.body)

\* C4: GET with a slug answers 200 with the stored record exactly when a record is
\* stored under the path remainder as given (drafts too), and 404 "Article not
\* found" otherwise; the store is left as it was.
C4_GetBySlug ==
    (req.method = "GET" /\ HasSlug(PathSlug(req.pathParts)) /\ req.throws = "none") =>
        LET key == PathSlug(req.pathParts).chars
        IN  /\ store = before
            /\ key \in DOMAIN store => resp = Response(200, store[key])
            /\ key \notin DOMAIN store => resp = Response(404, [error |-> "Article not found"])

\* a draft fetched by its slug
C4_Witness ==
    /\ req.method = "GET"
    /\ resp.status = 200
    /\ HasSlug(PathSlug(req.pathParts))
    /\ resp.body.status = "draft"

\* C5: DELETE with a slug answers 200 {success: true} whether or not the key is
\* stored, removes that key and no other; after it GET for the slug answers 404 and
\* no listing holds it; a key comes (back) into the store only by a POST to it.
\* DELETE without a slug answers 400 "Slug is required" and changes nothing.
C5_Delete ==
    /\ (req.method = "DELETE" /\ ~HasSlug(PathSlug(req.pathParts))) =>
         /\ resp = Response(400, [error |-> "Slug is required"])
         /\ store = before
    /\ (req.method = "DELETE" /\ HasSlug(PathSlug(req.pathParts)) /\ req.throws = "none") =>
         LET slug == PathSlug(req.pathParts)
         IN  /\ resp = Response(200, [success |-> TRUE])
             /\ DOMAIN store = DOMAIN before \ {slug.chars}
             /\ \A k \in DOMAIN store : store[k] = before[k]
             /\ GetResponse(store, req.pathParts, <<>>, "none").status = 404
             /\ \A blobs \in Orders(DOMAIN store) :
                  LET listed == GetResponse(store, BasePath, blobs, "none").body
                  IN  \A i \in DOMAIN listed : listed[i].slug # slug.chars
    /\ \A k \in DOMAIN store \ DOMAIN before : PostSaved /\ PostKey = k

\* a stored record deleted
C5_Witness ==
    /\ req.method = "DELETE"
    /\ resp.status = 200
    /\ PathSlug(req.pathParts).chars \in DOMAIN before

Normalized(s) ==
    /\ s # <<>>
    /\ \A i \in DOMAIN s : s[i] \in SlugChars
    /\ s[1] # "-"
    /\ s[Len(s)] # "-"
    /\ \A i \in 1..(Len(s) - 1) : ~(s[i] = "-" /\ s[i + 1] = "-")

\* C7: every stored record is stored under its own slug, and that slug is
\* normalized: not empty, only a-z, 0-9 and '-', no hyphen first or last, no two
\* hyphens in a row.
C7_KeysNormalized ==
    \A k \in DOMAIN store : store[k].slug = k /\ Normalized(k)

----------------------------------------------------------------------------
(* Claims about the listing (SpecList) *)

\* how often the record r occurs in the sequence s
Occurrences(s, r) == Cardinality({i \in DOMAIN s : s[i] = r})

\* C3: GET without a slug answers 200 with the stored records whose status is
\* "published", each once and no other, ordered so that a record with a later
\* publishedAt never comes after one with an earlier publishedAt (drafts left out,
\* an empty sequence for an empty store).
C3_ListingNewestFirst ==
    lst # Null =>
        LET listed == lst.resp.body
        IN  /\ lst.resp.status = 200
            /\ \A k \in DOMAIN store :
                 Occurrences(listed, store[k]) = IF store[k].status = "published" THEN 1 ELSE 0
            /\ \A i \in DOMAIN listed : listed[i].slug \in DOMAIN store
            /\ \A i, j \in DOMAIN listed :
                 (/\ i < j
                  /\ ~IsNaN(listed[i].publishedAt)
                  /\ ~IsNaN(listed[j].publishedAt))
                 => GetTime(listed[i].publishedAt) >= GetTime(listed[j].publishedAt)

\* the same, for stores in which every published record has a date that parses
C3_ListingNewestFirstValidDates ==
    (\A k \in DOMAIN store : store[k].status = "published" => ~IsNaN(store[k].publishedAt))
    => C3_ListingNewestFirst

----------------------------------------------------------------------------
(* Claims about the sanitation (SpecSan) *)

\* C8: slug sanitation is idempotent, sanitize(sanitize(s)) = sanitize(s), so the
\* slug a POST returned addresses the same key when it is posted again;
\* sanitize("Hello World!") = "hello-world" and sanitize("--a--b--") = "a-b".
C8_SanitizeIdempotent ==
    /\ san # Null /\ san.applied = 2 => san.twice = san.once
    /\ (san # Null /\ san.applied >= 1 /\ san.input = HelloWorld) =>
         san.once = <<"h","e","l","l","o","-","w","o","r","l","d">>
    /\ (san # Null /\ san.applied >= 1 /\ san.input = HyphensAB) =>
         san.once = <<"a","-","b">>

\* an input that sanitation changes at both ends and in the middle
C8_Witness ==
    /\ san # Null
    /\ san.applied = 2
    /\ san.input = <<"-", "a", "!", "B">>
    /\ san.once = <<"a", "-", "b">>

----------------------------------------------------------------------------
(* Claims about concurrent runs (SpecConc) *)

\* the record a POST saves, field by field, from its body and what it read
SavedBy(p) ==
    [slug |-> SanitizeSlug(loc[p].body.slug.chars),
     title |-> loc[p].body.title,
     status |-> loc[p].body.status,
     publishedAt |-> loc[p].body.publishedAt,
     excerpt |-> loc[p].body.excerpt,
     createdAt |-> IF loc[p].existingArticle # Null
                   THEN loc[p].existingArticle.createdAt ELSE loc[p].now,
     updatedAt |-> loc[p].now]

\* C9: when POSTs to one sanitized slug run concurrently, each setJSON leaves in
\* the store exactly the full record of its own POST (the record that POST
\* returns), and a stored record changes by no other step than a setJSON to its
\* key or a delete of it: the record left is that of the setJSON that ran last.
C9_LastWriteWins ==
    [][ /\ \A p \in Procs :
             (pc[p] = "set" /\ pc'[p] = "done") =>
                 /\ cresp'[p] = Response(IF loc[p].existingArticle # Null THEN 200 ELSE 201,
                                         SavedBy(p))
                 /\ loc[p].sanitizedSlug \in DOMAIN store'
                 /\ store'[loc[p].sanitizedSlug] = SavedBy(p)
        /\ \A k \in DOMAIN store' :
             (k \notin DOMAIN store \/ store'[k] # store[k]) =>
                 \E p \in Procs : /\ pc[p] = "set" /\ pc'[p] = "done"
                                  /\ loc[p].sanitizedSlug = k
                                  /\ store'[k] = SavedBy(p)
      ]_vars

\* two first-time creates of one slug, no DELETE: both answered 201, with different
\* createdAt, and the store holds the record of one of them
C9_Witness ==
    \E p, q \in Procs :
        /\ p # q
        /\ \A r \in Procs : loc[r].method # "DELETE"
        /\ pc[p] = "done" /\ pc[q] = "done"
        /\ cresp[p].status = 201 /\ cresp[q].status = 201
        /\ cresp[p].body.slug = cresp[q].body.slug
        /\ cresp[p].body.createdAt # cresp[q].body.createdAt
        /\ cresp[p].body.excerpt # cresp[q].body.excerpt
        /\ store[cresp[p].body.slug] = cresp[q].body

\* C10 as stated: every stored record has createdAt <= updatedAt, under every
\* interleaving of concurrent POST and DELETE requests.
C10_CreatedNotAfterUpdated ==
    \A k \in DOMAIN store : store[k].createdAt <= store[k].updatedAt

\* C10 amended: every stored record has createdAt <= updatedAt as long as no POST
\* took its timestamp while another POST to the same slug was between its own
\* timestamp and its setJSON; DELETE requests may interleave in any way.
C10_CreatedNotAfterUpdatedNoOverlap ==
    ~overlap => \A k \in DOMAIN store : store[k].createdAt <= store[k].updatedAt

\* a record updated, without overlap, at a later time than it was created
C10_Witness ==
    /\ ~overlap
    /\ \E p \in Procs :
         /\ pc[p] = "done"
         /\ cresp[p].status = 200
         /\ loc[p].sanitizedSlug \in DOMAIN store
         /\ store[loc[p].sanitizedSlug] = cresp[p].body
         /\ cresp[p].body.createdAt < cresp[p].body.updatedAt

====
